---- MODULE Spec2Model ----
(***************************************************************************)
(* The editor of src/src/main.rs as a state machine: the fields of Editor, *)
(* the update function (one action per Message arm), and the three futures *)
(* that Command::perform runs (load_file, pick_file, save_file) against a  *)
(* modelled disk.  A future's result is enqueued as a Message and update   *)
(* processes it later, after any number of other messages.                 *)
(***************************************************************************)
EXTENDS Naturals, Sequences, FiniteSets, Bags, TLC

\* ------------------------------------------------------------- bounds
MaxLen == 1        \* longest buffer or file text, in characters
MaxInFlight == 1   \* futures running plus results not yet processed

\* ------------------------------------------------------------- values
None == [some |-> FALSE]
Some(v) == [some |-> TRUE, val |-> v]

Ok(v) == [ok |-> TRUE, val |-> v]
Err(e) == [ok |-> FALSE, err |-> e]

Alphabet == {"X"}
Texts == UNION {[1..n -> Alphabet] : n \in 0..MaxLen}

default_file == "src/main.rs"
Paths == {default_file, "b.txt"}

\* io::ErrorKind: update never looks at the kind, one stands for all
ErrorKinds == {"NotFound"}
DialogClosed == [tag |-> "DialogClosed"]
IO(kind) == [tag |-> "IO", kind |-> kind]
EditorError == {DialogClosed} \cup {IO(k) : k \in ErrorKinds}

Themes == {"SolarizedDark", "InspiredGitHub"}

\* text_editor::Action: cursor motions and edits
Motions == {"Left", "Right"}
Move(m) == [move |-> m]
Insert(c) == [edit |-> "Insert", ch |-> c]
Backspace == [edit |-> "Backspace"]
Actions == {Move(m) : m \in Motions} \cup {Insert(c) : c \in Alphabet} \cup {Backspace}

is_edit(action) == "edit" \in DOMAIN action

\* text_editor::Content: the text and the cursor (characters before it)
ContentNew == [text |-> <<>>, cursor |-> 0]
ContentWith(t) == [text |-> t, cursor |-> 0]
ContentText(c) == c.text

Min(a, b) == IF a < b THEN a ELSE b

ContentEdit(c, action) ==
    IF "move" \in DOMAIN action
    THEN IF action.move = "Left"
         THEN [c EXCEPT !.cursor = IF c.cursor = 0 THEN 0 ELSE c.cursor - 1]
         ELSE [c EXCEPT !.cursor = Min(c.cursor + 1, Len(c.text))]
    ELSE IF action.edit = "Insert"
         THEN [text |-> SubSeq(c.text, 1, c.cursor) \o <<action.ch>>
                          \o SubSeq(c.text, c.cursor + 1, Len(c.text)),
               cursor |-> c.cursor + 1]
         ELSE IF c.cursor = 0 THEN c
              ELSE [text |-> SubSeq(c.text, 1, c.cursor - 1)
                               \o SubSeq(c.text, c.cursor + 1, Len(c.text)),
                    cursor |-> c.cursor - 1]

\* Message
MsgNew == [type |-> "New"]
MsgOpen == [type |-> "Open"]
MsgSave == [type |-> "Save"]
MsgEdit(a) == [type |-> "Edit", action |-> a]
MsgFileOpened(r) == [type |-> "FileOpened", opened |-> r]
MsgFileSaved(r) == [type |-> "FileSaved", saved |-> r]
MsgThemeSelected(t) == [type |-> "ThemeSelected", to |-> t]

\* the futures handed to Command::perform, with the arguments they captured
LoadFile(p) == [op |-> "load_file", arg |-> p]
PickFile == [op |-> "pick_file"]
SaveFile(p, t) == [op |-> "save_file", target |-> p, text |-> t]

\* ------------------------------------------------------------- state
VARIABLES path, content, error, theme, is_dirty,  \* struct Editor
          effects,  \* futures spawned by Command::perform, still running
          inbox,    \* results of finished futures, in completion order
          disk,     \* the file system: path -> Some(text) or None
          hist,     \* observer: the steps taken (only the last one when unscripted)
          script,   \* observer: the message types a scripted run processes, in order
          pc        \* observer: how many messages of the script have been processed

editor == <<path, content, error, theme, is_dirty>>
vars == <<path, content, error, theme, is_dirty, effects, inbox, disk, hist, script, pc>>

InFlight == BagCardinality(effects) + Len(inbox)

\* Editor::new that returns no command
Startup_NoLoad ==
    /\ path = None
    /\ content = ContentNew
    /\ error = None
    /\ theme = "SolarizedDark"
    /\ is_dirty = TRUE
    /\ effects = EmptyBag
    /\ inbox = <<>>
    /\ disk \in [Paths -> {None} \cup {Some(t) : t \in Texts}]
    /\ hist = <<>>
    /\ pc = 0

\* Editor::new
Startup ==
    /\ path = None
    /\ content = ContentNew
    /\ error = None
    /\ theme = "SolarizedDark"
    /\ is_dirty = TRUE
    /\ effects = SetToBag({[fut |-> LoadFile(default_file),
                             born |-> [path |-> None, text |-> <<>>, at |-> 0]]})
    /\ inbox = <<>>
    /\ disk \in [Paths -> {None} \cup {Some(t) : t \in Texts}]
    /\ hist = <<>>
    /\ pc = 0

Init == Startup /\ script = <<>>

\* observer: a step is recorded after the ones before it in a scripted run
Scripted == script # <<>>
Record(step) == hist' = IF Scripted THEN Append(hist, step) ELSE <<step>>
Last == hist[Len(hist)]
IsMessage(step) == step.type \in {"New", "Edit", "Open", "Save", "FileOpened",
                                  "FileSaved", "ThemeSelected"}
Processed == SelectSeq(hist, IsMessage)

\* A user script lists only the user's messages: results are processed
\* whenever they reach the head of the queue.
TwoSavesScript == <<"Save", "Edit", "Save">>
ResetScript == <<"Open", "New", "ThemeSelected">>
UserScripts == {TwoSavesScript, ResetScript}
IsResult(m) == m.type \in {"FileOpened", "FileSaved"}
Unscripted(m) == ~Scripted \/ (script \in UserScripts /\ IsResult(m))

\* ------------------------------------------------------------- update
\* Command::perform spawns the future; born is the observer's note of the
\* document at that moment and of the number of steps recorded before it
perform(e) ==
    effects' = effects (+) SetToBag({[fut |-> e,
                  born |-> [path |-> path, text |-> ContentText(content),
                            at |-> Len(hist)]]})
none == UNCHANGED effects

\* Edit that leaves the error in place
Edit_KeepsError(action) ==
    /\ is_dirty' = (is_dirty \/ is_edit(action))
    /\ content' = ContentEdit(content, action)
    /\ none
    /\ UNCHANGED <<path, error, theme>>

\* Edit that is refused while an error is shown
Edit_RefusedOnError(action) ==
    /\ error = None
    /\ is_dirty' = (is_dirty \/ is_edit(action))
    /\ content' = ContentEdit(content, action)
    /\ error' = None
    /\ none
    /\ UNCHANGED <<path, theme>>

\* Edit that assigns the flag instead of or-ing it
Edit_AssignsDirty(action) ==
    /\ is_dirty' = is_edit(action)
    /\ content' = ContentEdit(content, action)
    /\ error' = None
    /\ none
    /\ UNCHANGED <<path, theme>>

Edit(action) ==
    /\ is_dirty' = (is_dirty \/ is_edit(action))
    /\ content' = ContentEdit(content, action)
    /\ error' = None
    /\ none
    /\ UNCHANGED <<path, theme>>

\* Open that spawns the picker twice
Open_SpawnsTwice ==
    /\ effects' = effects (+) SetToBag({[fut |-> PickFile,
                      born |-> [path |-> path, text |-> ContentText(content),
                                at |-> Len(hist)]]})
                           (+) SetToBag({[fut |-> PickFile,
                      born |-> [path |-> path, text |-> ContentText(content),
                                at |-> Len(hist)]]})
    /\ UNCHANGED editor

Open ==
    /\ perform(PickFile)
    /\ UNCHANGED editor

\* a load that leaves the dirty flag as it was
FileOpenedOk_KeepsDirty(p, text) ==
    /\ path' = Some(p)
    /\ content' = ContentWith(text)
    /\ none
    /\ UNCHANGED <<is_dirty, error, theme>>

\* a load that also clears the error
FileOpenedOk_ClearsError(p, text) ==
    /\ is_dirty' = FALSE
    /\ path' = Some(p)
    /\ content' = ContentWith(text)
    /\ error' = None
    /\ none
    /\ UNCHANGED theme

FileOpenedOk(p, text) ==
    /\ is_dirty' = FALSE
    /\ path' = Some(p)
    /\ content' = ContentWith(text)
    /\ none
    /\ UNCHANGED <<error, theme>>

\* a failed load that also empties the buffer
FileOpenedErr_ClearsContent(e) ==
    /\ error' = Some(e)
    /\ content' = ContentNew
    /\ none
    /\ UNCHANGED <<path, theme, is_dirty>>

FileOpenedErr(e) ==
    /\ error' = Some(e)
    /\ none
    /\ UNCHANGED <<path, content, theme, is_dirty>>

\* New that cancels the futures still running
New_CancelsEffects ==
    /\ path' = None
    /\ is_dirty' = TRUE
    /\ content' = ContentNew
    /\ effects' = EmptyBag
    /\ UNCHANGED <<error, theme>>

\* New that keeps the old text
New_KeepsContent ==
    /\ path' = None
    /\ is_dirty' = TRUE
    /\ none
    /\ UNCHANGED <<content, error, theme>>

\* New that forgets to mark the fresh buffer dirty
New_KeepsDirtyFlag ==
    /\ path' = None
    /\ content' = ContentNew
    /\ none
    /\ UNCHANGED <<is_dirty, error, theme>>

New ==
    /\ path' = None
    /\ is_dirty' = TRUE
    /\ content' = ContentNew
    /\ none
    /\ UNCHANGED <<error, theme>>

\* Save that marks the document clean before the write has happened
Save_ClearsDirty ==
    /\ perform(SaveFile(path, ContentText(content)))
    /\ is_dirty' = FALSE
    /\ UNCHANGED <<path, content, error, theme>>

\* Save that hands save_file no path
Save_ForgetsPath ==
    /\ perform(SaveFile(None, ContentText(content)))
    /\ UNCHANGED editor

Save ==
    /\ perform(SaveFile(path, ContentText(content)))
    /\ UNCHANGED editor

\* FileSaved(Ok) that keeps the path the document already has
FileSavedOk_KeepsPath(p) ==
    /\ path' = IF path.some THEN path ELSE Some(p)
    /\ is_dirty' = FALSE
    /\ none
    /\ UNCHANGED <<content, error, theme>>

\* FileSaved(Ok) that drops a result for a file the document has left
FileSavedOk_IgnoresStale(p) ==
    /\ IF path = Some(p)
       THEN is_dirty' = FALSE /\ path' = Some(p)
       ELSE UNCHANGED <<path, is_dirty>>
    /\ none
    /\ UNCHANGED <<content, error, theme>>

FileSavedOk(p) ==
    /\ path' = Some(p)
    /\ is_dirty' = FALSE
    /\ none
    /\ UNCHANGED <<content, error, theme>>

\* a failed save that also forgets the file
FileSavedErr_DropsPath(e) ==
    /\ error' = Some(e)
    /\ path' = None
    /\ none
    /\ UNCHANGED <<content, theme, is_dirty>>

FileSavedErr(e) ==
    /\ error' = Some(e)
    /\ none
    /\ UNCHANGED <<path, content, theme, is_dirty>>

ThemeSelected(t) ==
    /\ theme' = t
    /\ none
    /\ UNCHANGED <<path, content, error, is_dirty>>

update(message) ==
    CASE message.type = "Edit" -> Edit(message.action)
      [] message.type = "Open" -> Open
      [] message.type = "FileOpened" ->
            IF message.opened.ok
            THEN FileOpenedOk(message.opened.val.path, message.opened.val.text)
            ELSE FileOpenedErr(message.opened.err)
      [] message.type = "New" -> New
      [] message.type = "Save" -> Save
      [] message.type = "FileSaved" ->
            IF message.saved.ok
            THEN FileSavedOk(message.saved.val)
            ELSE FileSavedErr(message.saved.err)
      [] message.type = "ThemeSelected" -> ThemeSelected(message.to)

\* ------------------------------------------------------------- futures
\* a read that returns an empty text for any file that exists
ReadResults_Empty(p) ==
    IF disk[p].some
    THEN {Ok([path |-> p, text |-> <<>>])} \cup {Err(IO(k)) : k \in ErrorKinds}
    ELSE {Err(IO(k)) : k \in ErrorKinds}

\* tokio::fs::read_to_string: the file's text, or the kind of the failure
ReadResults(p) ==
    IF disk[p].some
    THEN {Ok([path |-> p, text |-> disk[p].val])} \cup {Err(IO(k)) : k \in ErrorKinds}
    ELSE {Err(IO(k)) : k \in ErrorKinds}

load_file_results(p) == ReadResults(p)

pick_file_results == {Err(DialogClosed)} \cup UNION {load_file_results(p) : p \in Paths}

\* tokio::fs::write failing: nothing was written, or the file was created
\* or truncated and holds some leading part of the text
write_fails(p, text) ==
    \/ UNCHANGED disk
    \/ \E n \in 0..Len(text) : disk' = [disk EXCEPT ![p] = Some(SubSeq(text, 1, n))]

\* save_file that asks for a path even when it was given one
save_file_targets_AlwaysAsks(target) == Paths

\* save_file: the paths it may write (the captured one, or the dialog's)
save_file_targets(target) == IF target.some THEN {target.val} ELSE Paths

finish(e, m) ==
    /\ effects' = effects (-) SetToBag({e})
    /\ inbox' = Append(inbox, m)
    /\ Record([type |-> e.fut.op, effect |-> e, sent |-> m])
    /\ UNCHANGED <<editor, script, pc>>

\* a write that reads the buffer as it is when the write runs
write_LiveBuffer(p, text) == disk' = [disk EXCEPT ![p] = Some(ContentText(content))]

\* tokio::fs::write
write(p, text) == disk' = [disk EXCEPT ![p] = Some(text)]

load_file ==
    \E e \in BagToSet(effects) :
      /\ e.fut.op = "load_file"
      /\ \E r \in load_file_results(e.fut.arg) : finish(e, MsgFileOpened(r))
      /\ UNCHANGED disk

pick_file ==
    \E e \in BagToSet(effects) :
      /\ e.fut.op = "pick_file"
      /\ \E r \in pick_file_results : finish(e, MsgFileOpened(r))
      /\ UNCHANGED disk

save_file ==
    \E e \in BagToSet(effects) :
      /\ e.fut.op = "save_file"
      /\ \/ /\ ~e.fut.target.some
            /\ finish(e, MsgFileSaved(Err(DialogClosed)))
            /\ UNCHANGED disk
         \/ \E p \in save_file_targets(e.fut.target) :
              \/ /\ write(p, e.fut.text)
                 /\ finish(e, MsgFileSaved(Ok(p)))
              \/ /\ \E k \in ErrorKinds : finish(e, MsgFileSaved(Err(IO(k))))
                 /\ write_fails(p, e.fut.text)

\* ------------------------------------------------------------- the loop
Fits(t) == Len(t) <= MaxLen

Process(m) ==
    /\ Unscripted(m) \/ (pc < Len(script) /\ script[pc + 1] = m.type)
    /\ update(m)
    /\ Fits(content'.text)
    /\ Record(m)
    /\ pc' = IF Unscripted(m) THEN pc ELSE pc + 1
    /\ UNCHANGED <<disk, script>>

NewMsg == Process(MsgNew) /\ UNCHANGED inbox

EditMsg == \E a \in Actions : Process(MsgEdit(a)) /\ UNCHANGED inbox

\* unscripted runs leave at most MaxInFlight futures and results outstanding
Room == Scripted \/ InFlight < MaxInFlight

OpenMsg == Room /\ Process(MsgOpen) /\ UNCHANGED inbox

SaveMsg == Room /\ Process(MsgSave) /\ UNCHANGED inbox

ThemeSelectedMsg == \E t \in Themes : Process(MsgThemeSelected(t)) /\ UNCHANGED inbox

\* the result at the head of the queue re-enters update
FileOpenedMsg ==
    /\ inbox # <<>>
    /\ Head(inbox).type = "FileOpened"
    /\ Process(Head(inbox))
    /\ inbox' = Tail(inbox)

FileSavedMsg ==
    /\ inbox # <<>>
    /\ Head(inbox).type = "FileSaved"
    /\ Process(Head(inbox))
    /\ inbox' = Tail(inbox)

Next ==
    \/ NewMsg \/ EditMsg \/ OpenMsg \/ SaveMsg \/ ThemeSelectedMsg
    \/ FileOpenedMsg \/ FileSavedMsg
    \/ load_file \/ pick_file \/ save_file

Spec == Init /\ [][Next]_vars

\* ------------------------------------------------------------- scripted runs
\* A scripted run starts as the program does and processes exactly the
\* messages of its script, in order; futures finish whenever they can.
RaceScript == <<"FileOpened", "Edit", "Save", "Open", "FileOpened", "FileSaved">>
StaleSaveScript == <<"FileOpened", "Save", "New", "FileSaved">>
StaleOpenScript == <<"FileOpened", "Open", "New", "FileOpened">>
FrameScript == <<"FileOpened", "ThemeSelected", "Open", "Save">>
RoundTripScript == <<"Open", "FileOpened", "FileOpened", "Save", "FileSaved">>
Scripts == {RaceScript, StaleSaveScript, StaleOpenScript, FrameScript, RoundTripScript}

InitScript == Startup /\ script \in Scripts
SpecScript == InitScript /\ [][Next]_vars

\* A user run processes the user's messages of its script in order and every
\* result as it arrives.  Under SpecFair no future runs forever and no
\* result waits forever at the head of the queue (the executor polls every
\* spawned future, the runtime drains its queue).
InitUser == Startup /\ script \in UserScripts
SpecUser == InitUser /\ [][Next]_vars
SpecFair ==
    /\ InitUser /\ [][Next]_vars
    /\ WF_vars(load_file) /\ WF_vars(pick_file) /\ WF_vars(save_file)
    /\ WF_vars(FileOpenedMsg) /\ WF_vars(FileSavedMsg)

\* ------------------------------------------------------------- claims
OkResult(step) ==
    \/ step.type = "FileOpened" /\ step.opened.ok
    \/ step.type = "FileSaved" /\ step.saved.ok
ErrResult(step) ==
    \/ step.type = "FileOpened" /\ ~step.opened.ok
    \/ step.type = "FileSaved" /\ ~step.saved.ok
ContentChangingEdit(step) == step.type = "Edit" /\ is_edit(step.action)

\* C1: in every reachable state, a document with no path is dirty.
C1_NoPathImpliesDirty == path = None => is_dirty

\* C1 witness: a save-as was cancelled and its result processed; the
\* document still has no path and is dirty.
C1_Witness ==
    /\ hist # <<>> /\ Last = MsgFileSaved(Err(DialogClosed))
    /\ path = None /\ is_dirty

\* C2: in every reachable state, a clean document has a path and its
\* buffer holds the text of the file at that path.
C2_CleanMeansSameAsDisk ==
    ~is_dirty => path.some /\ disk[path.val] = Some(ContentText(content))

\* C3: processing a content-changing Edit leaves the document dirty, and
\* the only steps that take is_dirty from true to false process
\* FileOpened(Ok) or FileSaved(Ok).
C3_DirtyUntilLoadedOrSaved ==
    [][/\ ContentChangingEdit(Last') => is_dirty'
       /\ (is_dirty /\ ~is_dirty') => OkResult(Last')]_vars

\* C3 witness: a loaded document made dirty by a content-changing Edit.
C3_Witness ==
    /\ hist # <<>> /\ ContentChangingEdit(Last)
    /\ path.some /\ is_dirty

\* C4 as stated: only FileOpened(Ok) and FileSaved(Ok) change path.
C4_PathOnlyByLoadOrSave ==
    [][path' # path => OkResult(Last')]_vars

\* C4 amended: path changes only when New, FileOpened(Ok) or FileSaved(Ok)
\* is processed, New setting it to None; FileSaved(Err) never changes it.
C4_PathOnlyByNewLoadOrSave ==
    [][/\ path' # path => (OkResult(Last') \/ (Last' = MsgNew /\ path' = None))
       /\ ErrResult(Last') => path' = path]_vars

\* C4 witness: a failed save was processed and the document kept its path.
C4_Witness ==
    /\ hist # <<>> /\ Last.type = "FileSaved" /\ ~Last.saved.ok
    /\ path.some

\* C5: the race of a Save overtaken by an Open.  From a dirty document at
\* path a with text X: Save captures (a, X); after Open and FileOpened(Ok(b, Y))
\* the document is (b, Y, clean); after the late FileSaved(Ok(a)) it is
\* exactly (a, Y, clean).
RaceStart == script = RaceScript /\ pc >= 3
                /\ Processed[1].opened.ok /\ is_edit(Processed[2].action)
RaceA == Processed[1].opened.val.path
RaceSaves(e) == e.fut.op = "save_file" /\ e.fut.target = Some(RaceA)
                   /\ e.fut.text = e.born.text /\ e.born.path = Some(RaceA)
C5_RaceOutcome ==
    RaceStart =>
      /\ pc = 3 =>
            /\ path = Some(RaceA) /\ is_dirty
            /\ \/ \E e \in BagToSet(effects) :
                     RaceSaves(e) /\ e.fut.text = ContentText(content)
               \/ /\ Last.type = "save_file" /\ RaceSaves(Last.effect)
                  /\ Last.effect.fut.text = ContentText(content)
      /\ (pc >= 5 /\ Processed[5].opened.ok) =>
            /\ pc = 5 =>
                  /\ path = Some(Processed[5].opened.val.path)
                  /\ content = ContentWith(Processed[5].opened.val.text)
                  /\ ~is_dirty
            /\ (pc = 6 /\ Processed[6].saved.ok) =>
                  /\ Processed[6].saved.val = RaceA
                  /\ path = Some(RaceA)
                  /\ content = ContentWith(Processed[5].opened.val.text)
                  /\ ~is_dirty

\* C5 witness: the race has run to its end with b # a and Y # X: the
\* document shows b's text under a's path, clean, while a's file holds X.
C5_Witness ==
    /\ RaceStart /\ pc = 6
    /\ Processed[5].opened.ok /\ Processed[6].saved.ok
    /\ Processed[5].opened.val.path # RaceA
    /\ path = Some(RaceA) /\ ~is_dirty
    /\ disk[RaceA] # Some(ContentText(content))

\* C6: a result of a future spawned before a later New is applied as if
\* fresh, and New cancels nothing.  Save at path p; New; FileSaved(Ok(p))
\* ends with path p, clean, empty buffer.  Open; New; FileOpened(Ok((q, t)))
\* ends with path q, text t, clean.
C6_StaleResultsApplied ==
    /\ (script = StaleSaveScript /\ pc >= 3 /\ Processed[1].opened.ok) =>
          /\ pc = 3 => InFlight = 1 /\ path = None
          /\ (pc = 4 /\ Processed[4].saved.ok) =>
                /\ Processed[4].saved.val = Processed[1].opened.val.path
                /\ path = Some(Processed[4].saved.val)
                /\ ~is_dirty
                /\ content = ContentNew
    /\ (script = StaleOpenScript /\ pc >= 3) =>
          /\ pc = 3 => InFlight = 1 /\ path = None
          /\ (pc = 4 /\ Processed[4].opened.ok) =>
                /\ path = Some(Processed[4].opened.val.path)
                /\ content = ContentWith(Processed[4].opened.val.text)
                /\ ~is_dirty

\* C6 witness: Save at path p, New, then FileSaved(Ok(p)) have been
\* processed, and the file at p holds text the empty buffer does not.
C6_Witness ==
    /\ script = StaleSaveScript /\ pc = 4
    /\ Processed[1].opened.ok /\ Processed[4].saved.ok
    /\ path = Some(Processed[4].saved.val) /\ ~is_dirty
    /\ disk[path.val] # Some(ContentText(content))

\* C7: processing FileOpened(Err(e)) or FileSaved(Err(e)) sets
\* error = Some(e) and leaves path, content and is_dirty as they were.
ErrOf(step) == IF step.type = "FileOpened" THEN step.opened.err ELSE step.saved.err
C7_ErrorsOnlyRecorded ==
    [][ErrResult(Last') =>
          /\ error' = Some(ErrOf(Last'))
          /\ UNCHANGED <<path, content, is_dirty>>]_vars

\* C7 witness: a failed load was processed on a clean loaded document
\* with text in its buffer.
C7_Witness ==
    /\ hist # <<>> /\ Last.type = "FileOpened" /\ ~Last.opened.ok
    /\ error = Some(Last.opened.err)
    /\ path.some /\ ~is_dirty /\ content.text # <<>>

\* C8: in every reachable state update is defined for every Message, the
\* result at the head of the queue can be processed, and New and every
\* Edit that fits the buffer can be processed.
Results ==
    {MsgFileOpened(Ok([path |-> p, text |-> t])) : p \in Paths, t \in Texts}
      \cup {MsgFileOpened(Err(e)) : e \in EditorError}
      \cup {MsgFileSaved(Ok(p)) : p \in Paths}
      \cup {MsgFileSaved(Err(e)) : e \in EditorError}
Messages ==
    {MsgNew, MsgOpen, MsgSave} \cup {MsgEdit(a) : a \in Actions}
      \cup {MsgThemeSelected(t) : t \in Themes} \cup Results
C8_UpdateTotal ==
    /\ \A m \in Messages : ENABLED update(m)
    /\ inbox # <<>> => ENABLED (FileOpenedMsg \/ FileSavedMsg)
    /\ ENABLED NewMsg
    /\ \A a \in Actions :
          Fits(ContentEdit(content, a).text) => ENABLED (Process(MsgEdit(a)) /\ UNCHANGED inbox)

\* C8 witness: New was processed while an error was set and a future or
\* its result was outstanding.
C8_Witness ==
    /\ hist # <<>> /\ Last = MsgNew
    /\ error # None /\ InFlight > 0

\* C9: a save_file that succeeds writes the text the buffer held when Save
\* was processed, to the path the document had then when it had one, and
\* writes no other file.
C9_SaveWritesSnapshot ==
    [][(Last'.type = "save_file" /\ Last'.sent.saved.ok) =>
          /\ disk'[Last'.sent.saved.val] = Some(Last'.effect.born.text)
          /\ Last'.effect.born.path.some =>
                Last'.sent.saved.val = Last'.effect.born.path.val
          /\ \A q \in Paths \ {Last'.sent.saved.val} : disk'[q] = disk[q]]_vars

\* C9 witness: a save has just written its snapshot although the buffer
\* has changed since the Save was processed.
C9_Witness ==
    /\ hist # <<>> /\ Last.type = "save_file" /\ Last.sent.saved.ok
    /\ Last.effect.born.text # ContentText(content)
    /\ disk[Last.sent.saved.val] = Some(Last.effect.born.text)

\* C10: processing New gives path = None, an empty buffer and
\* is_dirty = true, and spawns no future.
C10_NewResets ==
    [][Last' = MsgNew =>
          /\ path' = None /\ content' = ContentNew /\ is_dirty'
          /\ effects' = effects /\ inbox' = inbox]_vars

\* C10 witness: New was processed with an error set, leaving an empty,
\* pathless, dirty document and nothing outstanding.
C10_Witness ==
    /\ hist # <<>> /\ Last = MsgNew
    /\ path = None /\ content = ContentNew /\ is_dirty
    /\ error # None /\ InFlight = 0

\* C11: round trip.  After FileOpened(Ok((p, t))) from any state, Save with
\* no edit in between spawns a save of t to Some(p), and FileSaved(Ok(p))
\* then leaves path = Some(p), text t, clean; processing FileSaved(Ok(p))
\* changes only path and is_dirty.
RoundTripLoaded == script = RoundTripScript /\ pc >= 3 /\ Processed[3].opened.ok
RoundTripP == Processed[3].opened.val.path
RoundTripT == Processed[3].opened.val.text
RoundTripSave(e) == e.fut = SaveFile(Some(RoundTripP), RoundTripT)
C11_RoundTrip ==
    /\ [](RoundTripLoaded =>
            /\ pc = 4 =>
                  \/ \E e \in BagToSet(effects) : RoundTripSave(e)
                  \/ \E i \in 1..Len(hist) :
                        hist[i].type = "save_file" /\ RoundTripSave(hist[i].effect)
            /\ (pc = 5 /\ Processed[5].saved.ok) =>
                  /\ Processed[5].saved.val = RoundTripP
                  /\ path = Some(RoundTripP)
                  /\ ~is_dirty
                  /\ content = ContentWith(RoundTripT)
                  /\ disk[RoundTripP] = Some(RoundTripT))
    /\ [][(Last'.type = "FileSaved" /\ Last'.saved.ok) =>
            /\ path' = Some(Last'.saved.val) /\ ~is_dirty'
            /\ UNCHANGED <<content, error, theme, effects>>]_vars

\* C11 witness: the round trip has run on a file picked in the dialog,
\* holding text, loaded over an earlier failed load.
C11_Witness ==
    /\ RoundTripLoaded /\ pc = 5 /\ Processed[5].saved.ok
    /\ RoundTripP # default_file /\ RoundTripT # <<>>
    /\ ~Processed[2].opened.ok
    /\ path = Some(RoundTripP) /\ ~is_dirty

\* C12: Open spawns exactly one future and Save exactly one, every other
\* message none; a future ends by sending exactly one message, FileOpened
\* for pick_file and load_file, FileSaved for save_file; so the results
\* processed and outstanding always equal the futures spawned, and when
\* futures and the queue are served fairly every result is processed.
Times(type) == Len(SelectSeq(hist, LAMBDA step : step.type = type))
Running(ops) ==
    BagCardinality([e \in {x \in BagToSet(effects) : x.fut.op \in ops} |-> effects[e]])
Queued(type) == Len(SelectSeq(inbox, LAMBDA m : m.type = type))
ResultType(op) == IF op = "save_file" THEN "FileSaved" ELSE "FileOpened"
C12_ExactlyOnce ==
    /\ [](/\ Times("FileOpened") + Queued("FileOpened")
              + Running({"pick_file", "load_file"}) = 1 + Times("Open")
          /\ Times("FileSaved") + Queued("FileSaved")
              + Running({"save_file"}) = Times("Save"))
    /\ [][/\ Last' = MsgOpen =>
              \E e \in BagToSet(effects') :
                 e.fut = PickFile /\ effects' = effects (+) SetToBag({e})
          /\ Last' = MsgSave =>
              \E e \in BagToSet(effects') :
                 e.fut.op = "save_file" /\ effects' = effects (+) SetToBag({e})
          /\ (IsMessage(Last') /\ Last'.type \notin {"Open", "Save"}) =>
              effects' = effects
          /\ ~IsMessage(Last') =>
              /\ effects' = effects (-) SetToBag({Last'.effect})
              /\ BagCardinality(effects') = BagCardinality(effects) - 1
              /\ inbox' = Append(inbox, Last'.sent)
              /\ Last'.sent.type = ResultType(Last'.type)]_vars
    /\ <>[](InFlight = 0)

\* C12 witness: both saves of a run and the startup load have finished and
\* their three results have been processed, nothing being left outstanding.
C12_Witness ==
    /\ script = TwoSavesScript /\ pc = Len(script)
    /\ InFlight = 0
    /\ Times("FileSaved") = 2 /\ Times("FileOpened") = 1

\* C13: processing Open, Save or ThemeSelected leaves path, content,
\* is_dirty and error as they were; Save hands save_file the current path
\* and buffer text; ThemeSelected(t) changes only theme, to t.
C13_OpenSaveThemeFrame ==
    [][/\ Last' = MsgOpen =>
             UNCHANGED <<path, content, is_dirty, error, theme>>
       /\ Last' = MsgSave =>
             /\ UNCHANGED <<path, content, is_dirty, error, theme>>
             /\ \E e \in BagToSet(effects') :
                   /\ e.fut = SaveFile(path, ContentText(content))
                   /\ effects' = effects (+) SetToBag({e})
       /\ Last'.type = "ThemeSelected" =>
             /\ theme' = Last'.to
             /\ UNCHANGED <<path, content, is_dirty, error, effects>>]_vars

\* C13 witness: Save was processed on a dirty document with a path, text
\* and an error set, and the future holding that path and text is running.
C13_Witness ==
    /\ hist # <<>> /\ Last = MsgSave
    /\ path.some /\ is_dirty /\ error # None /\ content.text # <<>>
    /\ \E e \in BagToSet(effects) : e.fut = SaveFile(path, ContentText(content))

\* C14: a save_file given Some(p) ends with FileSaved(Ok(p)) or
\* FileSaved(Err(IO(kind))), never with DialogClosed; given None it may end
\* with FileSaved(Err(DialogClosed)), and then no file has changed; it
\* sends FileSaved(Ok(q)) only when file q holds the text it was given.
C14_SaveProtocol ==
    [][Last'.type = "save_file" =>
          /\ Last'.sent.type = "FileSaved"
          /\ Last'.effect.fut.target.some =>
                /\ Last'.sent.saved.ok =>
                      Last'.sent.saved.val = Last'.effect.fut.target.val
                /\ ~Last'.sent.saved.ok =>
                      Last'.sent.saved.err \in {IO(k) : k \in ErrorKinds}
          /\ ~Last'.sent.saved.ok =>
                /\ Last'.sent.saved.err \in EditorError
                /\ Last'.sent.saved.err = DialogClosed =>
                      ~Last'.effect.fut.target.some /\ disk' = disk
          /\ Last'.sent.saved.ok =>
                disk'[Last'.sent.saved.val] = Some(Last'.effect.fut.text)]_vars

\* C14 witness: a save of a pathless document ended with the dialog
\* cancelled, and no file exists.
C14_Witness ==
    /\ hist # <<>> /\ Last.type = "save_file"
    /\ Last.effect.fut.target = None
    /\ Last.sent = MsgFileSaved(Err(DialogClosed))
    /\ \A p \in Paths : disk[p] = None

\* C15: load_file(p) ends with FileOpened(Ok((p, text))), text being the
\* whole text of file p, or with FileOpened(Err(IO(kind))); pick_file ends
\* with FileOpened(Err(DialogClosed)) or as load_file does on some path;
\* neither changes any file.
C15_LoadProtocol ==
    [][Last'.type \in {"load_file", "pick_file"} =>
          /\ disk' = disk
          /\ Last'.sent.type = "FileOpened"
          /\ Last'.sent.opened.ok =>
                /\ Last'.sent.opened.val.path \in Paths
                /\ disk[Last'.sent.opened.val.path] = Some(Last'.sent.opened.val.text)
                /\ Last'.type = "load_file" =>
                      Last'.sent.opened.val.path = Last'.effect.fut.arg
          /\ ~Last'.sent.opened.ok =>
                /\ Last'.sent.opened.err \in EditorError
                /\ Last'.sent.opened.err = DialogClosed => Last'.type = "pick_file"]_vars

\* C15 witness: pick_file has loaded a file other than the default one,
\* holding text.
C15_Witness ==
    /\ hist # <<>> /\ Last.type = "pick_file" /\ Last.sent.opened.ok
    /\ Last.sent.opened.val.path # default_file
    /\ Last.sent.opened.val.text # <<>>
    /\ disk[Last.sent.opened.val.path] = Some(Last.sent.opened.val.text)

\* C16: processing FileOpened(Ok((p, text))) gives content from text,
\* path = Some(p) and is_dirty = false, and spawns no future.
C16_AcceptLoaded ==
    [][(Last'.type = "FileOpened" /\ Last'.opened.ok) =>
          /\ content' = ContentWith(Last'.opened.val.text)
          /\ path' = Some(Last'.opened.val.path)
          /\ ~is_dirty'
          /\ effects' = effects]_vars

\* C16 witness: a file holding text was loaded with nothing else
\* outstanding, after an earlier failure.
C16_Witness ==
    /\ hist # <<>> /\ Last.type = "FileOpened" /\ Last.opened.ok
    /\ path = Some(Last.opened.val.path) /\ ~is_dirty
    /\ content = ContentWith(Last.opened.val.text) /\ content.text # <<>>
    /\ error # None /\ InFlight = 0

\* C17: processing Edit(action) applies the action to content, clears
\* error and keeps path; an edit action leaves is_dirty true, a cursor
\* motion leaves it as it was.
C17_ApplyEdit ==
    [][Last'.type = "Edit" =>
          /\ content' = ContentEdit(content, Last'.action)
          /\ error' = None
          /\ path' = path
          /\ is_edit(Last'.action) => is_dirty'
          /\ ~is_edit(Last'.action) => is_dirty' = is_dirty]_vars

\* C17 witness: the cursor was moved in a clean loaded document, which is
\* still clean.
C17_Witness ==
    /\ hist # <<>> /\ Last = MsgEdit(Move("Right"))
    /\ content.cursor = 1
    /\ path.some /\ ~is_dirty /\ error = None

\* C18: before any message is processed the document is empty, pathless,
\* dirty and without error, and exactly the load of default_file is
\* outstanding; when its failure is the first message processed the
\* document is still empty, pathless and dirty, with error = Some(e).
StartupLoad(e) == e.fut = LoadFile(default_file)
C18_Startup ==
    /\ pc = 0 =>
          /\ path = None /\ content = ContentNew /\ is_dirty /\ error = None
          /\ InFlight = 1
          /\ \/ \E e \in BagToSet(effects) : StartupLoad(e)
             \/ /\ Last.type = "load_file" /\ StartupLoad(Last.effect)
                /\ inbox = <<Last.sent>>
    /\ (pc = 1 /\ Processed[1].type = "FileOpened" /\ ~Processed[1].opened.ok) =>
          /\ path = None /\ content = ContentNew /\ is_dirty
          /\ error = Some(Processed[1].opened.err)

\* C18 witness: default_file does not exist and the failed startup load
\* was the first message processed.
C18_Witness ==
    /\ Scripted /\ pc = 1 /\ Processed[1].type = "FileOpened"
    /\ disk[default_file] = None
    /\ error = Some(IO("NotFound"))
    /\ path = None /\ is_dirty

\* C19: Save or Open processed while a future or result is outstanding
\* spawns one more future, with the path and text of that moment, and
\* leaves the others alone; and whatever the order in which results
\* arrive, path and is_dirty are those of the last successful result
\* processed (then None and dirty after a later New, dirty after a later
\* edit action), or of startup when there was none.
OkIndexes == {i \in 1..Len(Processed) : OkResult(Processed[i])}
LastOk == CHOOSE i \in OkIndexes : \A j \in OkIndexes : j <= i
PathOf(step) ==
    IF step.type = "FileOpened" THEN step.opened.val.path ELSE step.saved.val
After(i) == (i + 1)..Len(Processed)
C19_OverlappingEffects ==
    /\ [](IF OkIndexes = {}
          THEN path = None /\ is_dirty
          ELSE /\ path = IF \E j \in After(LastOk) : Processed[j] = MsgNew
                         THEN None ELSE Some(PathOf(Processed[LastOk]))
               /\ is_dirty = \E j \in After(LastOk) :
                                 \/ Processed[j] = MsgNew
                                 \/ ContentChangingEdit(Processed[j]))
    /\ [][(Last' \in {MsgSave, MsgOpen} /\ InFlight > 0) =>
            /\ inbox' = inbox
            /\ \E e \in BagToSet(effects') :
                  /\ effects' = effects (+) SetToBag({e})
                  /\ e.born.path = path /\ e.born.text = ContentText(content)
                  /\ e.fut = IF Last' = MsgSave
                              THEN SaveFile(path, ContentText(content))
                              ELSE PickFile]_vars

\* C19 witness: two saves with different snapshots were outstanding
\* together, the one spawned later finished first, both results have been
\* processed, and the path is the one of the result processed last.
C19_Witness ==
    /\ script = TwoSavesScript /\ pc = Len(script) /\ InFlight = 0
    /\ \E k1, k2 \in 1..Len(hist) :
          /\ k1 < k2
          /\ hist[k1].type = "save_file" /\ hist[k1].sent.saved.ok
          /\ hist[k2].type = "save_file" /\ hist[k2].sent.saved.ok
          /\ hist[k2].effect.born.at < hist[k1].effect.born.at
          /\ hist[k1].effect.born.at < k2
          /\ hist[k1].effect.fut.text # hist[k2].effect.fut.text
          /\ hist[k1].sent.saved.val # hist[k2].sent.saved.val
          /\ Last = hist[k2].sent
          /\ path = Some(hist[k2].sent.saved.val) /\ ~is_dirty

\* C20: only Edit clears error: processing New, Open, Save, ThemeSelected,
\* FileOpened(Ok) or FileSaved(Ok) leaves error as it was, and a step that
\* takes error from Some(e) to None processes an Edit.
C20_ErrorClearedOnlyByEdit ==
    [][/\ (Last'.type \in {"New", "Open", "Save", "ThemeSelected"} \/ OkResult(Last'))
             => error' = error
       /\ (error # None /\ error' = None) => Last'.type = "Edit"]_vars

\* C20 witness: a document has just been saved, is clean and agrees with
\* its file, and error is still set.
C20_Witness ==
    /\ hist # <<>> /\ Last.type = "FileSaved" /\ Last.saved.ok
    /\ path = Some(Last.saved.val) /\ ~is_dirty
    /\ disk[path.val] = Some(ContentText(content))
    /\ error # None
====
